---- MODULE Spec2Model ----
(***************************************************************************)
(* KLN freight invoice extractor (src/app.py).                             *)
(*                                                                         *)
(* Strings are sequences of one-character strings.  An optional value is   *)
(* None (Python None) or Some(v).  A number is a normalised fraction       *)
(* [n, d, t] with t the Python type ("int" or "float"); float arithmetic   *)
(* is exact here, IEEE rounding is not modelled.  The document text is     *)
(* represented by what each compiled pattern's search() returns on it:     *)
(* None, or the captured group(s).                                         *)
(***************************************************************************)
EXTENDS Integers, Sequences, FiniteSets, TLC

VARIABLES uploads, pc, i, clock, rows, warnings, progress, export

vars == <<uploads, pc, i, clock, rows, warnings, progress, export>>

\* ------------------------------------------------------------------------
\* Bounds of the model

MaxUploads == 3
MaxRawLen == 1
MaxDigits == 7

\* ------------------------------------------------------------------------
\* Python values

None == <<>>
Some(v) == <<v>>
Val(o) == o[1]

\* ------------------------------------------------------------------------
\* Characters and str methods

LOWER == <<"a","b","c","d","e","f","g","h","i","j","k","l","m",
           "n","o","p","q","r","s","t","u","v","w","x","y","z">>
UPPER == <<"A","B","C","D","E","F","G","H","I","J","K","L","M",
           "N","O","P","Q","R","S","T","U","V","W","X","Y","Z">>
DIGITS == <<"0","1","2","3","4","5","6","7","8","9">>

IsDigit(c) == \E k \in 1..Len(DIGITS) : DIGITS[k] = c
DigitVal(c) == (CHOOSE k \in 1..Len(DIGITS) : DIGITS[k] = c) - 1
IsUpperLetter(c) == \E k \in 1..Len(UPPER) : UPPER[k] = c
IsSpace(c) == c \in {" ", "\n", "\t"}

upper_char(c) ==
    IF \E k \in 1..Len(LOWER) : LOWER[k] = c
    THEN UPPER[CHOOSE k \in 1..Len(LOWER) : LOWER[k] = c]
    ELSE c

\* str.upper()
upper(s) == [k \in 1..Len(s) |-> upper_char(s[k])]

\* sub in s
Contains(s, sub) ==
    \E p \in 1..(Len(s) - Len(sub) + 1) : SubSeq(s, p, p + Len(sub) - 1) = sub

\* str.strip()
strip(s) ==
    LET keep == {k \in 1..Len(s) : ~IsSpace(s[k])}
    IN IF keep = {} THEN <<>>
       ELSE SubSeq(s, CHOOSE a \in keep : \A b \in keep : a <= b,
                      CHOOSE a \in keep : \A b \in keep : a >= b)

\* str.replace(",", "")
replace_commas(s) == SelectSeq(s, LAMBDA c : c # ",")

\* ------------------------------------------------------------------------
\* Numbers: int() and float() of a matched string

RECURSIVE GCD(_, _)
GCD(a, b) == IF b = 0 THEN a ELSE GCD(b, a % b)

RECURSIVE Pow10(_)
Pow10(k) == IF k = 0 THEN 1 ELSE 10 * Pow10(k - 1)

Num(n, d, t) ==
    LET g == GCD(n, d) IN [n |-> n \div g, d |-> d \div g, t |-> t]

RECURSIVE DigitsValue(_)
DigitsValue(s) ==
    IF s = <<>> THEN 0
    ELSE 10 * DigitsValue(SubSeq(s, 1, Len(s) - 1)) + DigitVal(s[Len(s)])

\* int(s) for s matched by \d+
int(s) == Num(DigitsValue(s), 1, "int")

\* float(s) raises ValueError unless s is digits with at most one point and
\* at least one digit (s is drawn from the classes [\d.] and [\d,] only)
float_raises(s) ==
    \/ \E k \in 1..Len(s) : ~IsDigit(s[k]) /\ s[k] # "."
    \/ Cardinality({k \in 1..Len(s) : s[k] = "."}) > 1
    \/ \A k \in 1..Len(s) : ~IsDigit(s[k])

float(s) ==
    LET dots == {k \in 1..Len(s) : s[k] = "."}
        frac == IF dots = {} THEN 0 ELSE Len(s) - (CHOOSE k \in dots : TRUE)
    IN Num(DigitsValue(SelectSeq(s, IsDigit)), Pow10(frac), "float")

\* a / b and a * b on floats, b a literal
DivBy(a, b) == Num(a.n, a.d * b, "float")
MulBy(a, b) == Num(a.n * b, a.d, "float")
Greater(a, b) == a.n * b.d > b.n * a.d

\* max(a, b): the first argument unless the second is strictly greater
max(a, b) == IF Greater(b, a) THEN b ELSE a

\* truth value of an optional number: None and 0 are false
Truthy(o) == o # None /\ Val(o).n # 0

\* ------------------------------------------------------------------------
\* extract_invoice_id and extract_currency_from_filename

\* re.search(r"(\d{4,6}[A-Z]?)", name): leftmost start of four digits, then
\* up to six digits greedily, then one optional upper-case letter
IdSearch(name) ==
    LET starts == {p \in 1..(Len(name) - 3) :
                      \A k \in p..(p + 3) : IsDigit(name[k])}
    IN IF starts = {} THEN None
       ELSE LET p == CHOOSE a \in starts : \A b \in starts : a <= b
                lens == {l \in 4..6 : p + l - 1 <= Len(name)
                                      /\ \A k \in p..(p + l - 1) : IsDigit(name[k])}
                l == CHOOSE a \in lens : \A b \in lens : a >= b
                e == IF p + l <= Len(name) /\ IsUpperLetter(name[p + l])
                     THEN p + l ELSE p + l - 1
            IN Some(SubSeq(name, p, e))

IdFallbackUpper(filename) ==
    LET m == IdSearch(upper(filename))
    IN IF m # None THEN Val(m) ELSE upper(filename)

extract_invoice_id(filename) ==
    LET name == upper(filename)
        m == IdSearch(name)
    IN IF m # None THEN Val(m) ELSE filename

CurrencyNoSpace(filename) ==
    LET name == upper(filename)
    IN IF Contains(name, <<"C","A","D">>) THEN Some("CAD")
       ELSE IF Contains(name, <<"U","S","D">>) THEN Some("USD")
       ELSE IF Contains(name, <<"E","U","R">>) THEN Some("EUR")
       ELSE None

extract_currency_from_filename(filename) ==
    LET name == upper(filename)
    IN IF Contains(name, <<" ","C","A","D">>) THEN Some("CAD")
       ELSE IF Contains(name, <<" ","U","S","D">>) THEN Some("USD")
       ELSE IF Contains(name, <<" ","E","U","R">>) THEN Some("EUR")
       ELSE None

\* ------------------------------------------------------------------------
\* HEADERS and parse_invoice_pdf_bytes

HEADERS == <<"Timestamp", "Filename", "Invoice_Date", "Currency", "Shipper",
             "Weight_KG", "Volume_M3", "Chargeable_KG", "Chargeable_CBM",
             "Pieces", "Subtotal", "Freight_Mode", "Freight_Rate">>

VOL_DIVISOR == 167
VOL_FACTOR == 167

\* What the try block raises on a document: opening it or extracting its
\* page text, or float() of a matched weight, volume weight, freight amount
\* or subtotal
PipelineRaisesOpenOnly(f) == ~f.opens

PipelineRaises(f) ==
    \/ ~f.opens
    \/ f.weight # None /\ float_raises(Val(f.weight))
    \/ f.vol # None /\ float_raises(Val(f.vol))
    \/ f.freight # None /\ float_raises(replace_commas(Val(f.freight)))
    \/ f.subtotal # None /\ float_raises(replace_commas(Val(f.subtotal)[1]))

inv_date_of(f) == IF f.date # None THEN Some(strip(Val(f.date))) ELSE None

shipper_of(f) == IF f.shipper # None THEN Some(strip(Val(f.shipper))) ELSE None

pieces_of(f) == IF f.packages # None THEN Some(int(Val(f.packages))) ELSE None

WeightDefaultZero(f) ==
    IF f.weight # None THEN Some(float(Val(f.weight))) ELSE Some(float(<<"0">>))

weight_of(f) == IF f.weight # None THEN Some(float(Val(f.weight))) ELSE None

volume_m3_of(f) ==
    IF f.vol # None THEN Some(DivBy(float(Val(f.vol)), VOL_DIVISOR)) ELSE None

chargeable_kg_of(weight, volume_m3) ==
    IF Truthy(weight) /\ Truthy(volume_m3)
    THEN Some(max(Val(weight), MulBy(Val(volume_m3), VOL_FACTOR)))
    ELSE None

CbmFromChargeable(weight, volume_m3) ==
    IF Truthy(weight) /\ Truthy(volume_m3) THEN volume_m3 ELSE None

chargeable_cbm_of(weight, volume_m3) == volume_m3

f_mode_of(f) == IF f.freight # None THEN Some("Air") ELSE None

f_rate_of(f) ==
    IF f.freight # None THEN Some(float(replace_commas(Val(f.freight)))) ELSE None

subtotal_of(f) ==
    IF f.subtotal # None
    THEN Some(float(replace_commas(Val(f.subtotal)[1]))) ELSE None

CurrencyTextFallback(f) ==
    IF extract_currency_from_filename(f.name) # None
    THEN extract_currency_from_filename(f.name)
    ELSE IF f.subtotal # None THEN Val(f.subtotal)[2] ELSE None

currency_of(f) == extract_currency_from_filename(f.name)

BuildRowNoDerived(f, now) ==
    [Timestamp |-> Some(now),
     Filename |-> Some(extract_invoice_id(f.name)),
     Invoice_Date |-> inv_date_of(f),
     Currency |-> currency_of(f),
     Shipper |-> shipper_of(f),
     Weight_KG |-> weight_of(f),
     Volume_M3 |-> volume_m3_of(f),
     Pieces |-> pieces_of(f),
     Subtotal |-> subtotal_of(f),
     Freight_Mode |-> f_mode_of(f),
     Freight_Rate |-> f_rate_of(f)]

BuildRow(f, now) ==
    [Timestamp |-> Some(now),
     Filename |-> Some(extract_invoice_id(f.name)),
     Invoice_Date |-> inv_date_of(f),
     Currency |-> currency_of(f),
     Shipper |-> shipper_of(f),
     Weight_KG |-> weight_of(f),
     Volume_M3 |-> volume_m3_of(f),
     Chargeable_KG |-> chargeable_kg_of(weight_of(f), volume_m3_of(f)),
     Chargeable_CBM |-> chargeable_cbm_of(weight_of(f), volume_m3_of(f)),
     Pieces |-> pieces_of(f),
     Subtotal |-> subtotal_of(f),
     Freight_Mode |-> f_mode_of(f),
     Freight_Rate |-> f_rate_of(f)]

\* The record, or None when the try block raised
parse_invoice_pdf_bytes(f, now) ==
    IF PipelineRaises(f) THEN None ELSE Some(BuildRow(f, now))

\* ------------------------------------------------------------------------
\* Export: pd.DataFrame(rows), the missing columns, df[HEADERS], ws.append

NUMERIC_COLUMNS == {"Weight_KG", "Volume_M3", "Chargeable_KG", "Chargeable_CBM",
                    "Pieces", "Subtotal", "Freight_Rate"}

NaN == [n |-> 0, d |-> 0, t |-> "float"]

Get(r, h) == IF h \in DOMAIN r THEN r[h] ELSE None

\* pd.DataFrame(rs) at row k, column h: a numeric column holding a None
\* becomes float64, its None cells NaN; every other cell is kept
FrameCell(rs, k, h) ==
    LET column == {Get(rs[j], h) : j \in 1..Len(rs)}
    IN IF h \in NUMERIC_COLUMNS /\ None \in column /\ column # {None}
       THEN IF Get(rs[k], h) = None THEN Some(NaN)
            ELSE Some([Val(Get(rs[k], h)) EXCEPT !.t = "float"])
       ELSE Get(rs[k], h)

SheetRowReversed(rs, k) ==
    [j \in 1..Len(HEADERS) |-> FrameCell(rs, k, HEADERS[Len(HEADERS) + 1 - j])]

\* [r[h] for h in HEADERS]
SheetRow(rs, k) == [j \in 1..Len(HEADERS) |-> FrameCell(rs, k, HEADERS[j])]

\* ws.append(HEADERS), then one ws.append per row of the frame
Workbook(rs) == <<HEADERS>> \o [k \in 1..Len(rs) |-> SheetRow(rs, k)]

\* ------------------------------------------------------------------------
\* Documents

DATE_RAW == <<"2","0","2","4","-","0","1","-","0","5">>
SHIPPER_RAW == <<"A","B"," ","\n">>
FREIGHT_RAW == <<"1",",","2","3","4",".","5","0">>
SUBTOTAL_RAW == <<"9","9",".","0","0">>

\* strings the class [\d.]+ can capture
RawChars == {"0", "5", "9", "."}
RawNums == UNION {[1..l -> RawChars] : l \in 1..MaxRawLen}

Opt(S) == {None} \cup {Some(v) : v \in S}

Text(opens, date, shipper, packages, weight, vol, freight, subtotal) ==
    [opens |-> opens, date |-> date, shipper |-> shipper, packages |-> packages,
     weight |-> weight, vol |-> vol, freight |-> freight, subtotal |-> subtotal]

Named(name, t) == [name |-> name] @@ t

Corrupt == Text(FALSE, None, None, None, None, None, None, None)

Texts ==
    {Text(TRUE, date, shipper, packages, weight, vol, freight, subtotal) :
        date \in Opt({DATE_RAW}), shipper \in Opt({SHIPPER_RAW}),
        packages \in Opt({<<"5">>}), weight \in Opt(RawNums), vol \in Opt(RawNums),
        freight \in Opt({FREIGHT_RAW}),
        subtotal \in Opt({<<SUBTOTAL_RAW, Some("USD")>>})}
    \cup {Corrupt}

\* the scenario of the specification: Gross Weight 120.5 KG, Volume Weight
\* 10020 KG
Scenario ==
    Text(TRUE, None, None, None, Some(<<"1","2","0",".","5">>),
         Some(<<"1","0","0","2","0">>), None, None)

FullText ==
    Text(TRUE, Some(DATE_RAW), Some(SHIPPER_RAW), Some(<<"5">>), Some(<<"5">>),
         Some(<<"9">>), Some(FREIGHT_RAW), Some(<<SUBTOTAL_RAW, Some("USD")>>))
EmptyText == Text(TRUE, None, None, None, None, None, None, None)
ZeroWeight == [EmptyText EXCEPT !.weight = Some(<<"0">>), !.vol = Some(<<"5">>)]
BadWeight == [FullText EXCEPT !.weight = Some(<<".">>)]

NAME_PLAIN == <<"i","n","v",".","p","d","f">>
NAME_CAD == <<"2","6","6","9","3"," ","C","A","D",".","p","d","f">>
NAME_DN == <<"I","n","v","o","i","c","e","_","D","N","2","6","6","9","3","A",
             "_","C","A","D",".","p","d","f">>

BatchDocs ==
    {Named(NAME_CAD, FullText),
     Named(NAME_PLAIN, FullText), Named(NAME_PLAIN, EmptyText),
     Named(NAME_DN, ZeroWeight), Named(NAME_PLAIN, Corrupt),
     Named(NAME_DN, BadWeight)}

\* filenames: prefix, a run of k digits, letters, a separator, a code, a tail
Run(k) == [j \in 1..k |-> DIGITS[(j % 10) + 1]]

Filenames ==
    {pre \o Run(k) \o letter \o sep \o code \o post :
        pre \in {<<>>, <<"D","N">>, <<"1","2","3","_">>},
        k \in 0..MaxDigits,
        letter \in {<<>>, <<"A">>, <<"a","b">>},
        sep \in {<<" ">>, <<"_">>},
        code \in {<<"C","A","D">>, <<"U","S","D">>, <<"E","U","R">>,
                  <<"c","a","d">>, <<"C","A">>, <<"U","S","D"," ","C","A","D">>},
        post \in {<<>>, <<"X">>, <<".","p","d","f">>}}
    \cup {NAME_PLAIN, NAME_CAD, NAME_DN}

\* ------------------------------------------------------------------------
\* The script run: the button, the loop over uploads, the export

Init0 ==
    /\ pc = "idle"
    /\ i = 0
    /\ clock = 0
    /\ rows = <<>>
    /\ warnings = <<>>
    /\ progress = 0
    /\ export = None

\* if extract_btn and uploads: rows = [], total = len(uploads)
Extract ==
    /\ pc = "idle"
    /\ uploads # <<>>
    /\ pc' = "loop"
    /\ i' = 1
    /\ rows' = <<>>
    /\ UNCHANGED <<uploads, clock, warnings, progress, export>>

\* one iteration of for i, f in enumerate(uploads, start=1)
ParseFile ==
    /\ pc = "loop"
    /\ i <= Len(uploads)
    /\ \E now \in {clock, clock + 1} :
          LET f == uploads[i]
              row == parse_invoice_pdf_bytes(f, now)
          IN /\ clock' = now
             /\ IF row # None
                THEN /\ rows' = Append(rows, Val(row))
                     /\ UNCHANGED warnings
                ELSE /\ warnings' = Append(warnings, f.name)
                     /\ UNCHANGED rows
    /\ progress' = i
    /\ i' = i + 1
    /\ UNCHANGED <<uploads, pc, export>>

\* after the loop: if rows: build the frame and the workbook
Finish ==
    /\ pc = "loop"
    /\ i > Len(uploads)
    /\ export' = IF rows # <<>> THEN Workbook(rows) ELSE export
    /\ pc' = "done"
    /\ UNCHANGED <<uploads, i, clock, rows, warnings, progress>>

Next == Extract \/ ParseFile \/ Finish

\* a batch of up to MaxUploads documents
Init ==
    /\ uploads \in UNION {[1..l -> BatchDocs] : l \in 0..MaxUploads}
    /\ Init0

Spec == Init /\ [][Next]_vars

\* one uploaded document, every combination of search results
InitParse ==
    /\ uploads \in {<<Named(NAME_CAD, t)>> : t \in Texts \cup {Scenario}}
    /\ Init0

SpecParse == InitParse /\ [][Next]_vars

\* one uploaded document, every filename
InitName ==
    /\ uploads \in {<<Named(n, t)>> : n \in Filenames, t \in {FullText, EmptyText}}
    /\ Init0

SpecName == InitName /\ [][Next]_vars

\* ------------------------------------------------------------------------
\* Properties

HeaderSet == {HEADERS[j] : j \in 1..Len(HEADERS)}

\* the number of uploads the loop has gone through
Processed == IF pc = "idle" THEN 0 ELSE i - 1

\* a matched number that is no decimal numeral: no digit, or two points
Malformed(o) ==
    /\ o # None
    /\ \/ \A k \in DOMAIN Val(o) : Val(o)[k] = "."
       \/ \E a, b \in DOMAIN Val(o) : a < b /\ Val(o)[a] = "." /\ Val(o)[b] = "."

\* the per-document pipeline raises: page-text extraction or a coercion
DocFails(f) == ~f.opens \/ Malformed(f.weight) \/ Malformed(f.vol)

Succeeded(n) == SelectSeq(SubSeq(uploads, 1, n), LAMBDA f : ~DocFails(f))
Failed(n) == SelectSeq(SubSeq(uploads, 1, n), LAMBDA f : DocFails(f))

SameNumber(a, b) == a.n = b.n /\ a.d = b.d

\* C1: in every produced record Chargeable_KG is present if and only if
\* Weight_KG and Volume_M3 are both present, a value of 0 included, and when
\* present it equals max(Weight_KG, Volume_M3 * 167).
C1_ChargeableIffBoth ==
    \A k \in 1..Len(rows) :
        LET r == rows[k]
        IN /\ r.Chargeable_KG # None <=> (r.Weight_KG # None /\ r.Volume_M3 # None)
           /\ r.Chargeable_KG # None =>
                 LET w == Val(r.Weight_KG)
                     v == MulBy(Val(r.Volume_M3), 167)
                 IN SameNumber(Val(r.Chargeable_KG), IF Greater(v, w) THEN v ELSE w)

\* C2: a document whose pipeline raises contributes no row and exactly one
\* failure report naming it, the rows are complete records of the documents
\* that did not raise, and the loop goes on to the end of the batch.
C2_FailureContained ==
    /\ Len(warnings) = Len(Failed(Processed))
    /\ \A k \in 1..Len(warnings) : warnings[k] = Failed(Processed)[k].name
    /\ Len(rows) = Len(Succeeded(Processed))
    /\ \A k \in 1..Len(rows) : DOMAIN rows[k] = HeaderSet
    /\ pc = "done" => Processed = Len(uploads)

C2_Witness ==
    /\ pc = "done"
    /\ Len(uploads) = 3
    /\ Malformed(uploads[1].weight)
    /\ ~uploads[2].opens
    /\ ~DocFails(uploads[3])
    /\ Len(rows) = 1
    /\ Len(warnings) = 2

\* C3: a field whose pattern has no match is None in the record, and a
\* document that opens and whose matched numbers are well formed always
\* yields a record, whatever is missing.
C3_NoMatchIsNone ==
    Processed = 1 =>
        LET f == uploads[1]
        IN /\ (f.opens /\ ~Malformed(f.weight) /\ ~Malformed(f.vol)) => Len(rows) = 1
           /\ \A k \in 1..Len(rows) :
                 LET r == rows[k]
                 IN /\ f.date = None => r.Invoice_Date = None
                    /\ f.shipper = None => r.Shipper = None
                    /\ f.packages = None => r.Pieces = None
                    /\ f.weight = None => r.Weight_KG = None
                    /\ f.vol = None => r.Volume_M3 = None
                    /\ f.freight = None => (r.Freight_Mode = None /\ r.Freight_Rate = None)
                    /\ f.subtotal = None => r.Subtotal = None

C3_Witness ==
    /\ Processed = 1
    /\ Len(rows) = 1
    /\ uploads[1] = Named(NAME_CAD, EmptyText)
    /\ rows[1].Weight_KG = None
    /\ rows[1].Pieces = None

\* C4: every record has exactly the 13 keys of HEADERS.
C4_ThirteenKeys ==
    \A k \in 1..Len(rows) :
        /\ DOMAIN rows[k] = HeaderSet
        /\ Cardinality(DOMAIN rows[k]) = 13

C4_Witness ==
    /\ Len(rows) = 1
    /\ uploads[1].date = None
    /\ uploads[1].weight = None
    /\ uploads[1].freight # None
    /\ uploads[1].vol # None

\* C5: Chargeable_CBM is Volume_M3, present exactly when the volume weight
\* was matched, whatever the gross weight and Chargeable_KG are.
C5_CbmMirrorsVolume ==
    Processed = 1 =>
        \A k \in 1..Len(rows) :
            /\ rows[k].Chargeable_CBM = rows[k].Volume_M3
            /\ rows[k].Chargeable_CBM # None <=> uploads[1].vol # None

C5_Witness ==
    /\ Len(rows) = 1
    /\ rows[1].Weight_KG = None
    /\ rows[1].Chargeable_KG = None
    /\ rows[1].Volume_M3 # None
    /\ rows[1].Chargeable_CBM = rows[1].Volume_M3

\* C6: a finished run with no successful record still has an export that is
\* the header row alone.
C6_HeaderOnlyExport ==
    (pc = "done" /\ rows = <<>>) => export = <<HEADERS>>

\* the value of record r under header h, as the sheet shows it: a missing
\* value as an empty or NaN cell, a number by its value
CellShows(cell, r, h) ==
    IF r[h] = None THEN cell = None \/ cell = Some(NaN)
    ELSE IF h \in NUMERIC_COLUMNS
         THEN cell # None /\ SameNumber(Val(cell), Val(r[h]))
         ELSE cell = r[h]

\* C7: after a run with a success the export is the header row followed by
\* one row per document that did not fail, in upload order, each row holding
\* that document's record in HEADERS order.
C7_ExportRows ==
    (pc = "done" /\ rows # <<>>) =>
        LET ok == Succeeded(Len(uploads))
        IN /\ export # None
           /\ export[1] = HEADERS
           /\ Len(export) = 1 + Len(ok)
           /\ \A k \in 1..Len(ok) :
                 /\ rows[k] = BuildRow(ok[k], Val(rows[k].Timestamp))
                 /\ Len(export[k + 1]) = Len(HEADERS)
                 /\ \A j \in 1..Len(HEADERS) :
                       CellShows(export[k + 1][j], rows[k], HEADERS[j])

C7_Witness ==
    /\ pc = "done"
    /\ Len(uploads) = 3
    /\ uploads[1].name = NAME_PLAIN /\ ~DocFails(uploads[1])
    /\ DocFails(uploads[2])
    /\ uploads[3].name = NAME_CAD /\ ~DocFails(uploads[3])
    /\ Len(export) = 3

\* C8: two documents with the same filename get the same Currency whatever
\* their text, and a code found only in the text leaves Currency None.
C8_CurrencyFromNameOnly ==
    LET ok == Succeeded(Processed)
    IN /\ Len(rows) = Len(ok)
       /\ \A a, b \in 1..Len(rows) :
             ok[a].name = ok[b].name => rows[a].Currency = rows[b].Currency
       /\ \A a \in 1..Len(rows) :
             ~(\E p \in DOMAIN ok[a].name : ok[a].name[p] = " ")
                => rows[a].Currency = None

C8_Witness ==
    /\ Len(rows) = 2
    /\ uploads[1] = Named(NAME_PLAIN, FullText)
    /\ uploads[2] = Named(NAME_PLAIN, EmptyText)
    /\ rows[1].Currency = None
    /\ rows[2].Currency = None

\* code c stands at position p + 1 of s, behind a space at p
SpaceBefore(s, p, c) ==
    /\ p + 3 <= Len(s)
    /\ s[p] = " "
    /\ <<s[p + 1], s[p + 2], s[p + 3]>> = c

\* ... and is not followed by a letter or a digit
TokenAt(s, p, c) ==
    /\ SpaceBefore(s, p, c)
    /\ p + 4 <= Len(s) => ~(IsUpperLetter(s[p + 4]) \/ IsDigit(s[p + 4]))

CodeChars(c) ==
    CASE c = "CAD" -> <<"C","A","D">>
      [] c = "USD" -> <<"U","S","D">>
      [] c = "EUR" -> <<"E","U","R">>

CODES == <<"CAD", "USD", "EUR">>

\* C9 as stated: the currency is a code only if the filename holds that code
\* as a token of its own behind a space, and None for a filename without one.
C9_SpaceDelimitedToken ==
    (Processed = 1 /\ Len(rows) = 1) =>
        LET s == upper(uploads[1].name)
            hasToken(c) == \E p \in DOMAIN s : TokenAt(s, p, CodeChars(c))
            cur == rows[1].Currency
        IN /\ cur \in {None, Some("CAD"), Some("USD"), Some("EUR")}
           /\ cur # None => hasToken(Val(cur))
           /\ (\A j \in 1..3 : ~hasToken(CODES[j])) => cur = None

\* C9 amended: the currency is the first of CAD, USD, EUR that the
\* upper-cased filename holds directly behind a space, whatever follows the
\* code, and None when it holds none of them so.
C9_SpacePrefixedCode ==
    (Processed = 1 /\ Len(rows) = 1) =>
        LET s == upper(uploads[1].name)
            has(c) == \E p \in DOMAIN s : SpaceBefore(s, p, CodeChars(c))
            cur == rows[1].Currency
        IN /\ cur \in {None, Some("CAD"), Some("USD"), Some("EUR")}
           /\ \A j \in 1..3 :
                 cur = Some(CODES[j]) <=>
                    (has(CODES[j]) /\ \A h \in 1..(j - 1) : ~has(CODES[h]))
           /\ uploads[1].name = NAME_DN => cur = None

C9_Witness ==
    /\ Len(rows) = 1
    /\ uploads[1].name = <<"D","N"," ","C","A","D","X">>
    /\ rows[1].Currency = Some("CAD")

\* C10: the Filename of a record is a run of 4 to 6 digits with at most one
\* letter behind it, taken from the (upper-cased) filename at its leftmost
\* run of four digits, and the filename itself, unchanged, when it has no
\* such run.
C10_InvoiceId ==
    (Processed = 1 /\ Len(rows) = 1) =>
        LET name == uploads[1].name
            id == Val(rows[1].Filename)
            four(p) == p + 3 <= Len(name) /\ \A k \in p..(p + 3) : IsDigit(name[k])
            digits == Cardinality({k \in DOMAIN id : IsDigit(id[k])})
        IN IF \E p \in DOMAIN name : four(p)
           THEN /\ digits \in 4..6
                /\ \A k \in 1..digits : IsDigit(id[k])
                /\ Len(id) \in {digits, digits + 1}
                /\ Len(id) = digits + 1 => IsUpperLetter(id[Len(id)])
                /\ \E p \in DOMAIN name :
                      /\ four(p)
                      /\ \A q \in 1..(p - 1) : ~four(q)
                      /\ SubSeq(upper(name), p, p + Len(id) - 1) = id
                      /\ (digits < 6 /\ p + digits <= Len(name))
                            => ~IsDigit(name[p + digits])
                      /\ (Len(id) = digits /\ p + digits <= Len(name))
                            => ~IsUpperLetter(upper(name)[p + digits])
           ELSE id = name

C10_Witness ==
    /\ Len(rows) = 1
    /\ uploads[1].name = <<"D","N","1","2","3","4","5","6","7","a","b","_","C","A","D">>
    /\ rows[1].Filename = Some(<<"1","2","3","4","5","6">>)

====
